---- MODULE Spec2Model ----
(***************************************************************************)
(* AuroraMind AI service (src/ai-service/main.py): the ingestion pipeline  *)
(* (ingest -> process_ingestion -> upsert_to_pinecone), the token gate and *)
(* the streaming query (rag_stream -> retrieve_context -> fallback).       *)
(*                                                                         *)
(* Python values are modelled as follows.                                  *)
(*   - A dict (DOCUMENTS, a JSON payload, the request headers) is a        *)
(*     function whose DOMAIN is the set of keys present.                   *)
(*   - A text (file content, prompt, note, stream fragment) is a sequence  *)
(*     of string segments; concatenation is \o.  Identifiers, namespaces   *)
(*     and tokens are plain strings.                                       *)
(*   - Python's None for a text is the sentinel None, which is no text the *)
(*     program builds.                                                     *)
(* The event loop is single threaded: a handler or task runs without       *)
(* interruption between two awaits, so each action below is one such run.  *)
(* The module is the service as an ASGI server imports it: every function  *)
(* of the file is defined before the first request is handled.             *)
(***************************************************************************)
EXTENDS Integers, Sequences, FiniteSets, TLC

VARIABLES
    SERVICE_TOKEN,    \* main.py:28, "" when unset
    OPENAI_API_KEY,   \* main.py:32, "" when unset
    PINECONE_API_KEY, \* os.getenv("PINECONE_API_KEY") read by get_pinecone, "" when unset
    pc_client,        \* main.py:51, FALSE is None, TRUE is the cached client
    DOCUMENTS,        \* main.py:50, the status map
    tasks,            \* background tasks added by ingest and not yet run
    index,            \* the external vector index: a set of stored vectors
    streams,          \* the token_stream generators of the open responses
    now,              \* the clock read by created_at (one tick per record)
    http,             \* the HTTP exchange the latest step completed, if it was one
    lastRun,          \* the process_ingestion run the latest step made, if it was one
    lastQuery,        \* the retrieve_context call the latest step made, if it made one
    closed            \* the stream the latest step ended, if it ended one

vars == <<SERVICE_TOKEN, OPENAI_API_KEY, PINECONE_API_KEY, pc_client, DOCUMENTS,
          tasks, index, streams, now, http, lastRun, lastQuery, closed>>

(***************************************************************************)
(* Bounds of the model.                                                    *)
(***************************************************************************)
\* Ingest requests accepted in one behaviour.
MaxIngests == 2
\* token_stream generators open at the same time.
MaxStreams == 1
\* Fragments the chat model may generate for one answer.
MaxGen == 1

(***************************************************************************)
(* Program constants.                                                      *)
(***************************************************************************)
\* main.py:217, top_k=5
top_k == 5

None == <<"<None>">>

(***************************************************************************)
(* Inputs.                                                                 *)
(***************************************************************************)
DocIds == {"d1", "d2"}
Secret == "s3cret"

\* The filesystem seen by extract_text.  A word segment stands for a stretch
\* of text that fills one chunk; " " and "\n" are whitespace.
FILES ==
    [u \in {"/data/blank.txt", "/data/one.txt", "/data/three.pdf"} |->
        CASE u = "/data/blank.txt" -> [suffix |-> ".txt", text |-> <<" ", "\n">>]
          [] u = "/data/one.txt"   -> [suffix |-> ".txt", text |-> <<"alpha">>]
          [] u = "/data/three.pdf" -> [suffix |-> ".pdf",
                                       pages |-> <<<<"p1", " ", "p2">>, None, <<"p3">>>>]]
Uris == DOMAIN FILES \cup {"/data/missing.txt"}

(***************************************************************************)
(* Text helpers.                                                           *)
(***************************************************************************)
\* str(n) of a small natural number, as "{len(chunks)}" and "{i}" format it.
str(n) ==
    CASE n = 0 -> "0" [] n = 1 -> "1" [] n = 2 -> "2" [] n = 3 -> "3"
      [] n = 4 -> "4" [] n = 5 -> "5" [] n = 6 -> "6" [] n = 7 -> "7"
      [] n = 8 -> "8" [] OTHER -> "9"

\* sep.join(parts) for a sequence of texts.
RECURSIVE join(_, _)
join(sep, parts) ==
    IF parts = <<>> THEN <<>>
    ELSE IF Len(parts) = 1 THEN parts[1]
    ELSE parts[1] \o sep \o join(sep, Tail(parts))

IsSpace(seg) == seg \in {" ", "\n"}

\* d.get(k, default) of a dict.
get(d, k, default) == IF k \in DOMAIN d THEN d[k] ELSE default

\* The dict d with d[k] = v set.  The variant sets every key to v.
putAll(d, k, v) == [x \in DOMAIN d \cup {k} |-> v]
put(d, k, v) == [x \in DOMAIN d \cup {k} |-> IF x = k THEN v ELSE d[x]]

(***************************************************************************)
(* extract_text, main.py:179-187.  The result is the returned text, or the *)
(* exception raised.  The variant reads every path as an empty text.       *)
(***************************************************************************)
extract_textLenient(path) == [raised |-> FALSE, exc |-> <<>>, text |-> <<>>]
extract_text(path) ==
    IF path \notin DOMAIN FILES
    THEN [raised |-> TRUE, exc |-> <<"file not found: ", path>>, text |-> <<>>]
    ELSE IF FILES[path].suffix = ".pdf"
    THEN [raised |-> FALSE, exc |-> <<>>,
          text |-> join(<<"\n">>,
                        [i \in 1..Len(FILES[path].pages) |->
                            IF FILES[path].pages[i] = None THEN <<>>
                            ELSE FILES[path].pages[i]])]
    ELSE [raised |-> FALSE, exc |-> <<>>, text |-> FILES[path].text]

(***************************************************************************)
(* RecursiveCharacterTextSplitter(chunk_size=800, chunk_overlap=120)       *)
(* .split_text, main.py:106-107.  A word segment of the model fills one    *)
(* chunk; the splitter strips whitespace and drops chunks left empty, so   *)
(* the chunks are the word segments in order.                              *)
(***************************************************************************)
RECURSIVE split_text(_)
split_text(text) ==
    IF text = <<>> THEN <<>>
    ELSE IF IsSpace(Head(text)) THEN split_text(Tail(text))
    ELSE <<<<Head(text)>>>> \o split_text(Tail(text))

(***************************************************************************)
(* OpenAIEmbeddings.embed_query: the vector of a text (main.py:194, 216).  *)
(***************************************************************************)
embed_query(text) == [of |-> text]

(***************************************************************************)
(* get_pinecone, main.py:54-62: the client (TRUE) or None (FALSE); the     *)
(* client is cached in pc_client once built.                               *)
(***************************************************************************)
get_pinecone == pc_client \/ PINECONE_API_KEY # ""

(***************************************************************************)
(* upsert_to_pinecone, main.py:190-207.                                    *)
(***************************************************************************)
\* main.py:195-206: the vector built for chunk i (0-based) of doc_id.
MakeVector(chunk, i, collection_id, doc_id) ==
    [id |-> <<doc_id, "-chunk-", str(i)>>,
     values |-> embed_query(chunk),
     metadata |-> [collection_id |-> collection_id,
                   document_id |-> doc_id,
                   chunk_id |-> <<"chunk-", str(i)>>,
                   text |-> chunk]]

\* main.py:207: the namespace the vectors are written to.  The variant
\* writes every collection to the default namespace.
UpsertNamespaceDefault(collection_id) == "kb-default"
UpsertNamespace(collection_id) == collection_id

\* index.upsert(vectors, namespace): entries with matching ids are replaced.
IndexUpsert(idx, vectors, namespace) ==
    {e \in idx : ~(e.namespace = namespace /\ \E v \in vectors : v.id = e.id)}
    \cup {[namespace |-> namespace, id |-> v.id, values |-> v.values,
           metadata |-> v.metadata] : v \in vectors}

\* embedFail = k > 0: the k-th embed_query call raises; upsertFail: index.upsert
\* raises.  The result tells what was called and what the index holds after.
\* The variant upserts each vector as soon as it is embedded.
upsert_to_pineconeEach(chunks, collection_id, doc_id, embedFail, upsertFail) ==
    LET n == Len(chunks)
        done == IF embedFail \in 1..n THEN embedFail - 1 ELSE n
        vectors == {MakeVector(chunks[i], i - 1, collection_id, doc_id) : i \in 1..done}
    IN  [raised |-> embedFail \in 1..n, exc |-> <<"embedding request failed">>,
         embedCalls |-> IF embedFail \in 1..n THEN embedFail ELSE n,
         upsertCalls |-> done,
         index |-> IndexUpsert(index, vectors, UpsertNamespace(collection_id))]
upsert_to_pinecone(chunks, collection_id, doc_id, embedFail, upsertFail) ==
    LET n == Len(chunks)
        vectors == {MakeVector(chunks[i], i - 1, collection_id, doc_id) : i \in 1..n}
    IN  IF embedFail \in 1..n
        THEN [raised |-> TRUE, exc |-> <<"embedding request failed">>,
              embedCalls |-> embedFail, upsertCalls |-> 0, index |-> index]
        ELSE IF upsertFail
        THEN [raised |-> TRUE, exc |-> <<"upsert request failed">>,
              embedCalls |-> n, upsertCalls |-> 1, index |-> index]
        ELSE [raised |-> FALSE, exc |-> <<>>,
              embedCalls |-> n, upsertCalls |-> 1,
              index |-> IndexUpsert(index, vectors, UpsertNamespace(collection_id))]

(***************************************************************************)
(* The try block of process_ingestion, main.py:104-123, given what its     *)
(* calls returned (ext: extract_text, chunks: split_text, pc: get_pinecone,*)
(* up: upsert_to_pinecone): the status and note it leaves, the calls it    *)
(* made, the client cache and the index after it.  The stage field says    *)
(* how far the try block got.                                              *)
(***************************************************************************)
\* main.py:108: "not chunks".  The variant never stops an empty chunk list.
NoChunksUnchecked(chunks) == FALSE
NoChunks(chunks) == chunks = <<>>

\* main.py:111-113: "not embeddings or not pc"; embeddings is None when
\* OPENAI_API_KEY is empty.  The variant stops only when both are missing.
CredentialsMissingBoth(pc) == OPENAI_API_KEY = "" /\ ~pc
CredentialsMissing(pc) == OPENAI_API_KEY = "" \/ ~pc

\* main.py:120-122: the except clause.  The variant records the message and
\* leaves the status as it was.
FailedKeepsStatus(exc, stage, nchunks, pc, embedCalls, upsertCalls) ==
    [status |-> "processing", note |-> exc, stage |-> stage, nchunks |-> nchunks,
     pc_client |-> pc, embedCalls |-> embedCalls, upsertCalls |-> upsertCalls,
     index |-> index]
Failed(exc, stage, nchunks, pc, embedCalls, upsertCalls) ==
    [status |-> "error", note |-> exc, stage |-> stage, nchunks |-> nchunks,
     pc_client |-> pc, embedCalls |-> embedCalls, upsertCalls |-> upsertCalls,
     index |-> index]

RunIngestion(ext, chunks, pc, up) ==
    IF ext.raised THEN Failed(ext.exc, "extract", 0, pc_client, 0, 0)
    ELSE IF NoChunks(chunks)
    THEN Failed(<<"no text extracted">>, "chunk", 0, pc_client, 0, 0)
    ELSE IF CredentialsMissing(pc)
    THEN Failed(<<"missing OPENAI_API_KEY or PINECONE_API_KEY for ingestion">>,
                "credentials", Len(chunks), pc, 0, 0)
    ELSE IF up.raised
    THEN Failed(up.exc, IF up.upsertCalls = 0 THEN "embed" ELSE "upsert",
                Len(chunks), pc, up.embedCalls, up.upsertCalls)
    ELSE [status |-> "ready",
          note |-> <<"Upserted ", str(Len(chunks)), " chunks to Pinecone.">>,
          stage |-> "done", nchunks |-> Len(chunks), pc_client |-> pc,
          embedCalls |-> up.embedCalls, upsertCalls |-> up.upsertCalls,
          index |-> up.index]

(***************************************************************************)
(* HTTP requests.  A path is the sequence of its segments.                 *)
(***************************************************************************)
HealthPath == <<"health">>
IngestPath == <<"internal", "ingest">>
QueryPath == <<"internal", "rag", "query", "stream">>

\* The request headers: x-service-token absent, right or wrong.
NoToken == <<>>
RightToken == [k \in {"x-service-token"} |-> Secret]
WrongToken == [k \in {"x-service-token"} |-> "wrong"]
Headers == {NoToken, RightToken, WrongToken}

Required == {"document_id", "collection_id", "storage_uri"}

IngestBody(d, c, u) == [document_id |-> d, collection_id |-> c, storage_uri |-> u]

\* Bodies of ingest requests that carry the required fields: two documents,
\* two collections, the four kinds of file, title absent, empty or given.
ValidIngest ==
    {IngestBody("d1", "kb-a", "/data/three.pdf"),
     put(IngestBody("d2", "kb-a", "/data/three.pdf"), "title", ""),
     put(IngestBody("d1", "kb-a", "/data/one.txt"), "title", "Report"),
     IngestBody("d1", "kb-default", "/data/one.txt"),
     IngestBody("d2", "kb-default", "/data/blank.txt"),
     IngestBody("d2", "kb-a", "/data/missing.txt")}

\* Bodies lacking one, two or all of the required fields.
InvalidIngest ==
    {[k \in K |-> IngestBody("d1", "kb-a", "/data/one.txt")[k]] :
        K \in (SUBSET Required) \ {Required}}

Prompts == {<<"why", "?">>}

\* Bodies of query requests: a prompt with kb_id absent, empty or given; and
\* bodies whose prompt is absent, null or empty.
ValidQuery ==
    {[k \in {"prompt"} |-> p] : p \in Prompts}
    \cup {[k \in {"prompt", "kb_id"} |-> IF k = "prompt" THEN p ELSE kb] :
            p \in Prompts, kb \in {"", "kb-a"}}
InvalidQuery ==
    {<<>>} \cup {[k \in {"prompt"} |-> p] : p \in {None, <<>>}}

\* main.py:67: request.url.path.startswith("/internal/")
IsInternal(path) == Len(path) >= 2 /\ path[1] = "internal"

\* verify_service_token, main.py:65-71: TRUE when the middleware raises
\* HTTPException(401) instead of calling call_next.
MiddlewareRaises(path, headers) ==
    /\ IsInternal(path)
    /\ SERVICE_TOKEN # ""
    /\ ~("x-service-token" \in DOMAIN headers
          /\ headers["x-service-token"] = SERVICE_TOKEN)

\* What the client receives when verify_service_token raises.  The handlers
\* that turn an HTTPException into a response of its status_code wrap the
\* routes only; a function registered with @app.middleware("http")
\* (main.py:65) runs outside them, so the exception raised at main.py:70
\* leaves the application and the server answers 500.
MiddlewareErrorStatus == 500
MiddlewareResponse ==
    [status |-> MiddlewareErrorStatus, body |-> [text |-> "Internal Server Error"]]

\* What the client receives when a route handler raises HTTPException.
HandlerError(status_code, detail) ==
    [status |-> status_code, body |-> [detail |-> detail]]

\* The exchange a step completes: the request as the server read it (json is
\* the parsed body, <<>> when no handler ran to read it), whether the route
\* handler ran, and the response.
Exchange(path, headers, json, ran, resp) ==
    <<[path |-> path, headers |-> headers, json |-> json,
       ran |-> ran, resp |-> resp]>>

(***************************************************************************)
(* The state after import: empty status map, no client, nothing scheduled. *)
(* The environment variables are read once and never change.               *)
(***************************************************************************)
Init ==
    /\ SERVICE_TOKEN \in {"", Secret}
    /\ OPENAI_API_KEY \in {"", "sk-key"}
    /\ PINECONE_API_KEY \in {"", "pc-key"}
    /\ pc_client = FALSE
    /\ DOCUMENTS = <<>>
    /\ tasks = {}
    /\ index = {}
    /\ streams = [s \in 1..MaxStreams |-> <<>>]
    /\ now = 0
    /\ http = <<>>
    /\ lastRun = <<>>
    /\ lastQuery = <<>>
    /\ closed = <<>>

env == <<SERVICE_TOKEN, OPENAI_API_KEY, PINECONE_API_KEY>>

\* A step that only answers a request: nothing but http changes.
Answer(exchange) ==
    /\ http' = exchange
    /\ lastRun' = <<>> /\ lastQuery' = <<>> /\ closed' = <<>>
    /\ UNCHANGED <<env, pc_client, DOCUMENTS, tasks, index, streams, now>>

(***************************************************************************)
(* GET /health, main.py:74-76.                                             *)
(***************************************************************************)
Health(headers) ==
    Answer(IF MiddlewareRaises(HealthPath, headers)
           THEN Exchange(HealthPath, headers, <<>>, FALSE, MiddlewareResponse)
           ELSE Exchange(HealthPath, headers, <<>>, TRUE,
                         [status |-> 200, body |-> [status |-> "ok"]]))

(***************************************************************************)
(* POST /internal/ingest, main.py:79-97, behind verify_service_token.      *)
(***************************************************************************)
\* main.py:82-83.
MissingRequired(payload) == \E field \in Required : field \notin DOMAIN payload

\* main.py:86-92; created_at is the clock's reading.  The variant leaves the
\* status at the dataclass default (main.py:45).
NewRecordQueued(payload, at) ==
    [document_id |-> payload["document_id"],
     collection_id |-> payload["collection_id"],
     storage_uri |-> payload["storage_uri"],
     title |-> IF get(payload, "title", "") = "" THEN "Untitled" ELSE payload["title"],
     status |-> "queued",
     note |-> None,
     created_at |-> at]
NewRecord(payload, at) ==
    [document_id |-> payload["document_id"],
     collection_id |-> payload["collection_id"],
     storage_uri |-> payload["storage_uri"],
     title |-> IF get(payload, "title", "") = "" THEN "Untitled" ELSE payload["title"],
     status |-> "processing",
     note |-> None,
     created_at |-> at]

IngestUnauthorized(headers, payload) ==
    /\ MiddlewareRaises(IngestPath, headers)
    /\ Answer(Exchange(IngestPath, headers, <<>>, FALSE, MiddlewareResponse))

\* main.py:83-84.  The variant adds the background task before it checks the
\* fields.
IngestInvalidScheduled(headers, payload) ==
    /\ ~MiddlewareRaises(IngestPath, headers)
    /\ MissingRequired(payload)
    /\ tasks' = tasks \cup {[document_id |-> get(payload, "document_id", "d1"),
                             req |-> now]}
    /\ http' = Exchange(IngestPath, headers, payload, TRUE,
                        HandlerError(400, "missing required fields"))
    /\ lastRun' = <<>> /\ lastQuery' = <<>> /\ closed' = <<>>
    /\ UNCHANGED <<env, pc_client, DOCUMENTS, index, streams, now>>
IngestInvalid(headers, payload) ==
    /\ ~MiddlewareRaises(IngestPath, headers)
    /\ MissingRequired(payload)
    /\ Answer(Exchange(IngestPath, headers, payload, TRUE,
                       HandlerError(400, "missing required fields")))

\* A task is process_ingestion's argument, the document_id; req tells which
\* request added it (the created_at of the record that request stored).
IngestAccepted(headers, payload) ==
    /\ ~MiddlewareRaises(IngestPath, headers)
    /\ ~MissingRequired(payload)
    /\ now < MaxIngests
    /\ LET record == NewRecord(payload, now + 1)
       IN  /\ DOCUMENTS' = put(DOCUMENTS, record.document_id, record)
           /\ tasks' = tasks \cup {[document_id |-> record.document_id,
                                    req |-> now + 1]}
           /\ http' = Exchange(IngestPath, headers, payload, TRUE,
                               [status |-> 200,
                                body |-> [status |-> "accepted",
                                          document_id |-> record.document_id]])
    /\ now' = now + 1
    /\ lastRun' = <<>> /\ lastQuery' = <<>> /\ closed' = <<>>
    /\ UNCHANGED <<env, pc_client, index, streams>>

ingest(headers, payload) ==
    \/ IngestUnauthorized(headers, payload)
    \/ IngestInvalid(headers, payload)
    \/ IngestAccepted(headers, payload)

(***************************************************************************)
(* process_ingestion(document_id), main.py:100-123, run as a background    *)
(* task after the response of the request that added it.  It has no await: *)
(* it runs to its end in one step.                                         *)
(***************************************************************************)
\* The embed_query call that may fail in a run: none (0) or the k-th.
EmbedFailures ==
    LET counts == {Len(split_text(extract_text(u).text)) : u \in Uris}
    IN  0..(CHOOSE n \in counts : \A m \in counts : m <= n)

process_ingestion(t, embedFail, upsertFail) ==
    /\ t \in tasks
    /\ tasks' = tasks \ {t}
    /\ IF t.document_id \notin DOMAIN DOCUMENTS
       THEN lastRun' = <<>> /\ UNCHANGED <<pc_client, DOCUMENTS, index>>
       ELSE \E record \in {DOCUMENTS[t.document_id]} :
            \E ext \in {extract_text(record.storage_uri)} :
            \E chunks \in {split_text(ext.text)} :
            \E pc \in {get_pinecone} :
            \E up \in {upsert_to_pinecone(chunks, record.collection_id,
                                          record.document_id, embedFail, upsertFail)} :
            \E run \in {RunIngestion(ext, chunks, pc, up)} :
                /\ DOCUMENTS' = put(DOCUMENTS, t.document_id,
                                    [record EXCEPT !.status = run.status,
                                                   !.note = run.note])
                /\ pc_client' = run.pc_client
                /\ index' = run.index
                /\ lastRun' = <<[document_id |-> t.document_id,
                                 req |-> t.req,
                                 created_at |-> record.created_at,
                                 before |-> record.status,
                                 stage |-> run.stage,
                                 nchunks |-> run.nchunks,
                                 embedCalls |-> run.embedCalls,
                                 upsertCalls |-> run.upsertCalls]>>
    /\ http' = <<>> /\ lastQuery' = <<>> /\ closed' = <<>>
    /\ UNCHANGED <<env, streams, now>>

(***************************************************************************)
(* POST /internal/rag/query/stream, main.py:126-160, behind                *)
(* verify_service_token.  The handler returns the response with the        *)
(* generator token_stream(), which runs afterwards.                        *)
(***************************************************************************)
\* main.py:132: "not prompt" of payload.get("prompt").  The variant rejects
\* a body without the key only.
NoPromptKey(payload) == "prompt" \notin DOMAIN payload
NoPrompt(payload) == get(payload, "prompt", None) \in {None, <<>>}

\* main.py:144: kb_id or "kb-default"
QueryNamespace(kb_id) == IF kb_id = "" THEN "kb-default" ELSE kb_id

\* main.py:150-155: the canned reply; piece 3 is f'Prompt: "{prompt}". '.
\* The variant echoes the prompt cut to its first segment, as the log line at
\* main.py:139 cuts it.
syntheticCut(prompt) ==
    << <<"Synthesizing an AuroraMind reply. ">>,
       <<"This stubbed AI service will echo your prompt back. ">>,
       <<"Prompt: \"">> \o SubSeq(prompt, 1, 1) \o <<"\". ">>,
       <<"Connect Pinecone and OpenAI to replace this path.">> >>
synthetic(prompt) ==
    << <<"Synthesizing an AuroraMind reply. ">>,
       <<"This stubbed AI service will echo your prompt back. ">>,
       <<"Prompt: \"">> \o prompt \o <<"\". ">>,
       <<"Connect Pinecone and OpenAI to replace this path.">> >>

\* main.py:147, 158: text.encode("utf-8") + b"\n"
Fragment(text) == text \o <<"\n">>

\* The generator of a new response, not yet started: the variables it
\* closes over (prompt, kb_id), where it stands (pc, and nfb canned pieces
\* sent), the context it holds, and what it has sent: out, of which ngen
\* fragments were generated, after sleeps delays.
NewStream(prompt, kb_id) ==
    [prompt |-> prompt, kb_id |-> kb_id, pc |-> "start", context |-> <<>>,
     out |-> <<>>, ngen |-> 0, nfb |-> 0, sleeps |-> 0]

QueryUnauthorized(headers, payload) ==
    /\ MiddlewareRaises(QueryPath, headers)
    /\ Answer(Exchange(QueryPath, headers, <<>>, FALSE, MiddlewareResponse))

QueryInvalid(headers, payload) ==
    /\ ~MiddlewareRaises(QueryPath, headers)
    /\ NoPrompt(payload)
    /\ Answer(Exchange(QueryPath, headers, payload, TRUE,
                       HandlerError(400, "prompt is required")))

QueryAccepted(headers, payload) ==
    /\ ~MiddlewareRaises(QueryPath, headers)
    /\ ~NoPrompt(payload)
    /\ \E s \in 1..MaxStreams :
        /\ streams[s] = <<>>
        /\ \A r \in 1..(s - 1) : streams[r] # <<>>
        /\ streams' = [streams EXCEPT ![s] =
                          <<NewStream(payload["prompt"], get(payload, "kb_id", ""))>>]
        /\ http' = Exchange(QueryPath, headers, payload, TRUE,
                            [status |-> 200, body |-> [stream |-> str(s)]])
    /\ lastRun' = <<>> /\ lastQuery' = <<>> /\ closed' = <<>>
    /\ UNCHANGED <<env, pc_client, DOCUMENTS, tasks, index, now>>

rag_stream(headers, payload) ==
    \/ QueryUnauthorized(headers, payload)
    \/ QueryInvalid(headers, payload)
    \/ QueryAccepted(headers, payload)

(***************************************************************************)
(* retrieve_context, main.py:210-233.                                      *)
(***************************************************************************)
\* main.py:212.  The variant checks the vector client alone.
ClientMissingVector(pc) == ~pc
ClientMissing(pc) == ~pc \/ OPENAI_API_KEY = ""

\* main.py:217: the namespace searched for collection_id.
SearchNamespace(collection_id) == collection_id

\* index.query(top_k=5, namespace=...): the matches are top_k vectors of the
\* namespace, or all of them when it holds fewer; which ones is the index's
\* choice (its similarity metric).
QueryResults(namespace) ==
    LET held == {e \in index : e.namespace = namespace}
        k == IF Cardinality(held) < top_k THEN Cardinality(held) ELSE top_k
    IN  {m \in SUBSET held : Cardinality(m) = k}

\* The matches as the list the index returns; the model lists a given set of
\* matches in one fixed order.
RECURSIVE Ordered(_)
Ordered(m) ==
    IF m = {} THEN <<>>
    ELSE LET first == CHOOSE e \in m : TRUE
         IN  <<first>> \o Ordered(m \ {first})

\* main.py:219-233: the context joined from the texts of the matches.
Context(matches) ==
    join(<<"\n\n">>, [i \in 1..Len(matches) |-> matches[i].metadata.text])

\* outcome: "ok", or the call that raises ("embed", "search"); found: the
\* matches the index returns.  The result tells the exception raised if any
\* (raised), what was called, the namespace searched and the context.
retrieve_context(collection_id, outcome, found) ==
    LET pc == get_pinecone
        base == [raised |-> <<>>, pc_client |-> pc, embedCalls |-> 0,
                 searchCalls |-> 0, namespace |-> "", matches |-> {},
                 context |-> <<>>]
    IN  IF ClientMissing(pc)
        THEN [base EXCEPT !.raised = <<"vector or embedding client missing">>]
        ELSE IF outcome = "embed"
        THEN [base EXCEPT !.raised = <<"embedding request failed">>,
                          !.embedCalls = 1]
        ELSE IF outcome = "search"
        THEN [base EXCEPT !.raised = <<"query request failed">>,
                          !.embedCalls = 1, !.searchCalls = 1,
                          !.namespace = SearchNamespace(collection_id)]
        ELSE [base EXCEPT !.embedCalls = 1, !.searchCalls = 1,
                          !.namespace = SearchNamespace(collection_id),
                          !.matches = found,
                          !.context = Context(Ordered(found))]

(***************************************************************************)
(* token_stream, main.py:142-158: one action per stretch between awaits.   *)
(***************************************************************************)
Quiet == http' = <<>> /\ lastRun' = <<>>
Others == <<env, DOCUMENTS, tasks, index, now>>

\* main.py:144-146: retrieve the context and open the generation stream
\* (outcome "chain": building or opening the chain raises).  An exception
\* enters the except clause, main.py:148.
StreamStart(s, outcome) ==
    /\ streams[s] # <<>>
    /\ streams[s][1].pc = "start"
    /\ \E found \in QueryResults(SearchNamespace(QueryNamespace(streams[s][1].kb_id))) :
       LET st == streams[s][1]
           ns == QueryNamespace(st.kb_id)
           r == retrieve_context(ns, outcome, found)
           failed == r.raised # <<>> \/ outcome = "chain"
       IN  /\ pc_client' = r.pc_client
           /\ streams' = [streams EXCEPT ![s] =
                <<[st EXCEPT !.pc = IF failed THEN "fallback" ELSE "gen",
                             !.context = r.context]>>]
           /\ lastQuery' = <<[prompt |-> st.prompt, kb_id |-> st.kb_id,
                              raised |-> r.raised,
                              embedCalls |-> r.embedCalls,
                              searchCalls |-> r.searchCalls,
                              genCalls |-> IF failed THEN 0 ELSE 1,
                              namespace |-> r.namespace,
                              matches |-> r.matches,
                              context |-> r.context]>>
    /\ Quiet /\ closed' = <<>>
    /\ UNCHANGED Others

GenChunks == {<<"Aurora">>}

\* main.py:146-147: the chain yields a chunk, which is sent.
StreamGenerate(s, chunk) ==
    /\ streams[s] # <<>>
    /\ streams[s][1].pc = "gen"
    /\ streams[s][1].ngen < MaxGen
    /\ streams' = [streams EXCEPT ![s] =
            <<[streams[s][1] EXCEPT !.out = @ \o <<Fragment(chunk)>>,
                                    !.ngen = @ + 1]>>]
    /\ Quiet /\ lastQuery' = <<>> /\ closed' = <<>>
    /\ UNCHANGED <<Others, pc_client>>

\* main.py:146: the chain is exhausted; the generator returns.
StreamFinish(s) ==
    /\ streams[s] # <<>>
    /\ streams[s][1].pc = "gen"
    /\ closed' = <<[streams[s][1] EXCEPT !.pc = "done"]>>
    /\ streams' = [streams EXCEPT ![s] = <<>>]
    /\ Quiet /\ lastQuery' = <<>>
    /\ UNCHANGED <<Others, pc_client>>

\* main.py:146, 148: the chain raises while generating.
StreamBreak(s) ==
    /\ streams[s] # <<>>
    /\ streams[s][1].pc = "gen"
    /\ streams' = [streams EXCEPT ![s] =
            <<[streams[s][1] EXCEPT !.pc = "fallback", !.context = <<>>]>>]
    /\ Quiet /\ lastQuery' = <<>> /\ closed' = <<>>
    /\ UNCHANGED <<Others, pc_client>>

\* main.py:156-158: one turn of the loop: the sleep ends and the piece is
\* sent.  Delays(n) is the number of sleeps made before piece n is sent.
Delays(n) == n

StreamFallback(s) ==
    /\ streams[s] # <<>>
    /\ streams[s][1].pc = "fallback"
    /\ LET st == streams[s][1]
           pieces == synthetic(st.prompt)
           sent == [st EXCEPT !.out = @ \o <<Fragment(pieces[st.nfb + 1])>>,
                              !.sleeps = Delays(st.nfb + 1),
                              !.nfb = @ + 1]
       IN  IF sent.nfb = Len(pieces)
           THEN /\ closed' = <<[sent EXCEPT !.pc = "done"]>>
                /\ streams' = [streams EXCEPT ![s] = <<>>]
           ELSE /\ closed' = <<>>
                /\ streams' = [streams EXCEPT ![s] = <<sent>>]
    /\ Quiet /\ lastQuery' = <<>>
    /\ UNCHANGED <<Others, pc_client>>

(***************************************************************************)
(* The service: requests with headers from H, ingest bodies from IP and    *)
(* query bodies from QP, the background tasks and the open streams.        *)
(***************************************************************************)
NextOn(H, IP, QP) ==
    \/ \E h \in H : Health(h)
    \/ \E h \in H, p \in IP : ingest(h, p)
    \/ \E t \in tasks, e \in EmbedFailures, u \in BOOLEAN : process_ingestion(t, e, u)
    \/ \E h \in H, p \in QP : rag_stream(h, p)
    \/ \E s \in 1..MaxStreams, o \in {"ok", "embed", "search", "chain"} :
          StreamStart(s, o)
    \/ \E s \in 1..MaxStreams, c \in GenChunks : StreamGenerate(s, c)
    \/ \E s \in 1..MaxStreams : StreamFinish(s) \/ StreamBreak(s)
    \/ \E s \in 1..MaxStreams : StreamFallback(s)

\* Every ingest body that carries the required fields and one that does
\* not; a query with a prompt and one without.
MainHeaders == {NoToken, RightToken}
MainIngest == ValidIngest \cup {[k \in {"document_id"} |-> "d1"]}
MainQuery == {[k \in {"prompt"} |-> p] : p \in Prompts} \cup {<<>>}
Next == NextOn(MainHeaders, MainIngest, MainQuery)

Spec == Init /\ [][Next]_vars

\* The event loop runs the background tasks that were added: while a task is
\* pending, one is eventually run.  The ingest bodies reach every stage at
\* which process_ingestion can fail, twice for one document.
FairIngest ==
    {IngestBody("d1", "kb-a", "/data/three.pdf"),
     IngestBody("d1", "kb-a", "/data/missing.txt"),
     IngestBody("d2", "kb-default", "/data/blank.txt"),
     [k \in {"document_id"} |-> "d1"]}
FairNext == NextOn(MainHeaders, FairIngest, MainQuery)
RunTask == \E t \in tasks, e \in EmbedFailures, u \in BOOLEAN : process_ingestion(t, e, u)
\* The server keeps reading an open response: a generator that can make a
\* step eventually makes one.
StreamStep ==
    \E s \in 1..MaxStreams :
        \/ \E o \in {"ok", "embed", "search", "chain"} : StreamStart(s, o)
        \/ \E c \in GenChunks : StreamGenerate(s, c)
        \/ StreamFinish(s)
        \/ StreamBreak(s)
        \/ StreamFallback(s)
FairSpec == Init /\ [][FairNext]_vars /\ WF_vars(RunTask) /\ WF_vars(StreamStep)

\* Every query body, with ingest bodies that fill one namespace past top_k
\* vectors or fill both namespaces.
QueryIngest ==
    {IngestBody("d1", "kb-a", "/data/three.pdf"),
     put(IngestBody("d2", "kb-a", "/data/three.pdf"), "title", ""),
     IngestBody("d1", "kb-default", "/data/one.txt"),
     [k \in {"document_id"} |-> "d1"]}
QueryNext == NextOn(MainHeaders, QueryIngest, ValidQuery \cup {<<>>})
QuerySpec == Init /\ [][QueryNext]_vars

\* Every header and every rejected body, with one accepted body of each kind.
GateIngest ==
    {put(IngestBody("d1", "kb-a", "/data/one.txt"), "title", "Report"),
     IngestBody("d1", "kb-default", "/data/blank.txt")} \cup InvalidIngest
GateQuery == {[k \in {"prompt"} |-> p] : p \in Prompts} \cup InvalidQuery
GateNext == NextOn(Headers, GateIngest, GateQuery)
GateSpec == Init /\ [][GateNext]_vars

(***************************************************************************)
(* The claims.                                                             *)
(***************************************************************************)
Terminal == {"ready", "error"}
StatusOf(d) == IF d \in DOMAIN DOCUMENTS THEN DOCUMENTS[d].status ELSE "absent"

\* The step answered an ingest request whose handler ran on a body with
\* every required field.
IngestAnswered ==
    /\ http # <<>>
    /\ http[1].path = IngestPath
    /\ http[1].ran
    /\ Required \subseteq DOMAIN http[1].json

\* C1: every ingest request that carries document_id, collection_id and
\* storage_uri is answered with the document_id it submitted, and, the
\* background tasks being run fairly, a record that is 'processing' is
\* eventually 'ready' or 'error', whichever stage of process_ingestion fails.
C1_AcceptedThenTerminal ==
    /\ [](IngestAnswered =>
            /\ http[1].resp.status = 200
            /\ http[1].resp.body["document_id"] = http[1].json["document_id"]
            /\ StatusOf(http[1].json["document_id"]) = "processing")
    /\ \A d \in DocIds :
          (StatusOf(d) = "processing") ~> (StatusOf(d) \in Terminal)

\* A run failed while embedding and left its record in 'error'.
C1_Witness ==
    /\ lastRun # <<>>
    /\ lastRun[1].stage = "embed"
    /\ lastRun[1].before = "processing"
    /\ StatusOf(lastRun[1].document_id) = "error"

\* C2: a record that is 'ready' or 'error' changes only in a step that
\* answers a new ingest request for its document_id, and the status it takes
\* is 'processing'; process_ingestion never moves a record from one terminal
\* status to another, duplicate submissions of a document_id included.
C2_TerminalChangesOnlyByIngest ==
    [][\A d \in DOMAIN DOCUMENTS :
          (DOCUMENTS[d].status \in Terminal /\ DOCUMENTS'[d] # DOCUMENTS[d]) =>
              /\ IngestAnswered'
              /\ http'[1].json["document_id"] = d
              /\ DOCUMENTS'[d].status = "processing"]_vars

\* The chunks of the file a record points to.
ChunksOf(record) == split_text(extract_text(record.storage_uri).text)

\* C3: a record is 'ready' only if its file was extracted, chunking gave
\* n >= 1 chunks, the embedding credential and the vector-index client were
\* both present and the upsert returned, the n vectors being in the index;
\* its note then states n.  The run that sets 'ready' passed every stage.
C3_ReadyOnlyAfterAllStages ==
    /\ \A d \in DOMAIN DOCUMENTS :
          DOCUMENTS[d].status = "ready" =>
              /\ DOCUMENTS[d].storage_uri \in DOMAIN FILES
              /\ Len(ChunksOf(DOCUMENTS[d])) >= 1
              /\ OPENAI_API_KEY # ""
              /\ pc_client
              /\ DOCUMENTS[d].note =
                    <<"Upserted ", str(Len(ChunksOf(DOCUMENTS[d]))), " chunks to Pinecone.">>
              /\ \A i \in 1..Len(ChunksOf(DOCUMENTS[d])) :
                    \E e \in index :
                        /\ e.namespace = DOCUMENTS[d].collection_id
                        /\ e.id = <<d, "-chunk-", str(i - 1)>>
                        /\ e.metadata.text = ChunksOf(DOCUMENTS[d])[i]
    /\ (lastRun # <<>> /\ StatusOf(lastRun[1].document_id) = "ready") =>
              /\ lastRun[1].stage = "done"
              /\ lastRun[1].nchunks >= 1
              /\ lastRun[1].embedCalls = lastRun[1].nchunks
              /\ lastRun[1].upsertCalls = 1

\* A run has just set a record holding three chunks to 'ready'.
C3_Witness ==
    /\ lastRun # <<>>
    /\ lastRun[1].before = "processing"
    /\ StatusOf(lastRun[1].document_id) = "ready"
    /\ DOCUMENTS[lastRun[1].document_id].note = <<"Upserted ", "3", " chunks to Pinecone.">>

\* C4: a run on a record whose file exists and yields no chunks leaves the
\* record in 'error' with the note 'no text extracted', whatever credentials
\* are configured, and makes no embedding call and no upsert call.
C4_NoChunksIsError ==
    (/\ lastRun # <<>>
     /\ DOCUMENTS[lastRun[1].document_id].storage_uri \in DOMAIN FILES
     /\ ChunksOf(DOCUMENTS[lastRun[1].document_id]) = <<>>) =>
        /\ DOCUMENTS[lastRun[1].document_id].status = "error"
        /\ DOCUMENTS[lastRun[1].document_id].note = <<"no text extracted">>
        /\ lastRun[1].embedCalls = 0
        /\ lastRun[1].upsertCalls = 0

\* A run on the blank file with both credentials configured.
C4_Witness ==
    /\ lastRun # <<>>
    /\ DOCUMENTS[lastRun[1].document_id].storage_uri = "/data/blank.txt"
    /\ OPENAI_API_KEY # ""
    /\ PINECONE_API_KEY # ""
    /\ DOCUMENTS[lastRun[1].document_id].status = "error"

\* The step answered an ingest request whose handler ran on a body that
\* lacks a required field.
IngestIncomplete ==
    /\ http # <<>>
    /\ http[1].path = IngestPath
    /\ http[1].ran
    /\ ~(Required \subseteq DOMAIN http[1].json)

\* C5: an ingest request whose body lacks document_id, collection_id or
\* storage_uri is answered 400, and the step changes neither the status map
\* (no record created, replaced or modified) nor the scheduled tasks.
C5_MissingFieldsRejected ==
    [][IngestIncomplete' =>
          /\ http'[1].resp.status = 400
          /\ DOCUMENTS' = DOCUMENTS
          /\ tasks' = tasks]_vars

\* A body naming a document that has a record, without collection_id, was
\* answered 400.
C5_Witness ==
    /\ IngestIncomplete
    /\ "document_id" \in DOMAIN http[1].json
    /\ "collection_id" \notin DOMAIN http[1].json
    /\ http[1].json["document_id"] \in DOMAIN DOCUMENTS
    /\ http[1].resp.status = 400

\* The step answered a request to a path under /internal/ that carried no
\* x-service-token or another one than the configured SERVICE_TOKEN.
Unauthorized ==
    /\ http # <<>>
    /\ SERVICE_TOKEN # ""
    /\ IsInternal(http[1].path)
    /\ ~(/\ "x-service-token" \in DOMAIN http[1].headers
          /\ http[1].headers["x-service-token"] = SERVICE_TOKEN)

\* C6: with SERVICE_TOKEN set, a request under /internal/ without the right
\* x-service-token is answered 401 and its handler does not run; with
\* SERVICE_TOKEN empty every such request reaches its handler; /health is
\* never gated.
C6_UnauthorizedAnswered401 ==
    /\ Unauthorized => (http[1].resp.status = 401 /\ ~http[1].ran)
    /\ (http # <<>> /\ SERVICE_TOKEN = "") => http[1].ran
    /\ (http # <<>> /\ http[1].path = HealthPath) =>
            (http[1].ran /\ http[1].resp.status = 200)

\* The four fragments of the canned reply to a prompt.
Canned(prompt) ==
    << <<"Synthesizing an AuroraMind reply. ", "\n">>,
       <<"This stubbed AI service will echo your prompt back. ", "\n">>,
       <<"Prompt: \"">> \o prompt \o <<"\". ", "\n">>,
       <<"Connect Pinecone and OpenAI to replace this path.", "\n">> >>

\* The Pinecone client or the OpenAI key is unavailable.
Unavailable == OPENAI_API_KEY = "" \/ PINECONE_API_KEY = ""

\* C7: while the Pinecone client or the OpenAI key is unavailable, a stream
\* makes no embedding, search or generation call, sends the four canned
\* fragments in order, each newline-terminated and after one more delay, the
\* third holding the prompt verbatim, and, the generator being run fairly,
\* completes with exactly these four fragments.
C7_FallbackStream ==
    /\ [](Unavailable =>
            /\ lastQuery # <<>> =>
                  /\ lastQuery[1].embedCalls = 0
                  /\ lastQuery[1].searchCalls = 0
                  /\ lastQuery[1].genCalls = 0
            /\ \A s \in 1..MaxStreams :
                  streams[s] # <<>> =>
                      /\ streams[s][1].ngen = 0
                      /\ streams[s][1].sleeps = Len(streams[s][1].out)
                      /\ streams[s][1].out =
                            SubSeq(Canned(streams[s][1].prompt), 1, Len(streams[s][1].out))
            /\ closed # <<>> =>
                  /\ closed[1].pc = "done"
                  /\ closed[1].out = Canned(closed[1].prompt)
                  /\ closed[1].sleeps = 4
                  /\ closed[1].ngen = 0)
    /\ \A s \in 1..MaxStreams :
          (Unavailable /\ streams[s] # <<>>) ~> (closed # <<>>)

\* A stream completed with the canned reply while the OpenAI key was set and
\* the Pinecone key was not.
C7_Witness ==
    /\ OPENAI_API_KEY # ""
    /\ PINECONE_API_KEY = ""
    /\ closed # <<>>
    /\ closed[1].nfb = 4

\* C8: a stream that fell back, whichever step raised, holds the canned
\* reply and nothing else: no completed stream holds both generated and
\* fallback fragments.
C8_NeverGeneratedAndFallback ==
    closed # <<>> =>
        /\ closed[1].pc = "done"
        /\ ~(closed[1].ngen > 0 /\ closed[1].nfb > 0)
        /\ closed[1].nfb > 0 => closed[1].out = Canned(closed[1].prompt)

\* The vectors the index holds in a namespace.
Held(namespace) == {e \in index : e.namespace = namespace}

\* C9: a run writes vectors only into the namespace equal to its record's
\* collection_id, so every vector sits in the namespace of the collection it
\* was ingested for; a query searches the namespace equal to its kb_id,
\* 'kb-default' when kb_id is absent or empty; and the context of a query is
\* made of the texts of at most 5 vectors of that namespace, each upserted
\* for the collection of that name.
C9_NamespaceIsolation ==
    /\ [](\A e \in index : e.namespace = e.metadata.collection_id)
    /\ [][\A e \in index' \ index :
             /\ lastRun' # <<>>
             /\ e.metadata.document_id = lastRun'[1].document_id
             /\ e.namespace = DOCUMENTS'[lastRun'[1].document_id].collection_id]_vars
    /\ []((lastQuery # <<>> /\ lastQuery[1].searchCalls = 1) =>
             lastQuery[1].namespace =
                 IF lastQuery[1].kb_id = "" THEN "kb-default" ELSE lastQuery[1].kb_id)
    /\ [](lastQuery # <<>> =>
             /\ lastQuery[1].matches \subseteq Held(lastQuery[1].namespace)
             /\ \A e \in lastQuery[1].matches :
                   e.metadata.collection_id = lastQuery[1].namespace
             /\ Cardinality(lastQuery[1].matches) <= 5
             /\ \A i \in 1..Len(lastQuery[1].context) :
                   \/ lastQuery[1].context[i] = "\n\n"
                   \/ \E e \in lastQuery[1].matches :
                         e.metadata.text = <<lastQuery[1].context[i]>>
             /\ \A e \in lastQuery[1].matches :
                   \E i \in 1..Len(lastQuery[1].context) :
                         e.metadata.text = <<lastQuery[1].context[i]>>)

\* A query for 'kb-a' got five of the six vectors that namespace holds.
C9_Witness ==
    /\ lastQuery # <<>>
    /\ lastQuery[1].kb_id = "kb-a"
    /\ Cardinality(lastQuery[1].matches) = 5
    /\ Cardinality(Held("kb-a")) = 6
    /\ lastQuery[1].context # <<>>

\* C10: with OPENAI_API_KEY empty no embedding call is made: the index
\* stays empty, a run makes no embedding or upsert call and, when its file
\* yields chunks, leaves its record in 'error' with the missing-credential
\* note, and a query raises the configuration error in retrieve_context
\* with no embedder, search or generation call.
C10_NoEmbeddingWithoutKey ==
    OPENAI_API_KEY = "" =>
        /\ index = {}
        /\ lastRun # <<>> =>
              /\ lastRun[1].embedCalls = 0
              /\ lastRun[1].upsertCalls = 0
              /\ (/\ DOCUMENTS[lastRun[1].document_id].storage_uri \in DOMAIN FILES
                  /\ ChunksOf(DOCUMENTS[lastRun[1].document_id]) # <<>>) =>
                    /\ lastRun[1].stage = "credentials"
                    /\ DOCUMENTS[lastRun[1].document_id].status = "error"
                    /\ DOCUMENTS[lastRun[1].document_id].note =
                          <<"missing OPENAI_API_KEY or PINECONE_API_KEY for ingestion">>
        /\ lastQuery # <<>> =>
              /\ lastQuery[1].raised = <<"vector or embedding client missing">>
              /\ lastQuery[1].embedCalls = 0
              /\ lastQuery[1].searchCalls = 0
              /\ lastQuery[1].genCalls = 0

\* A query was made with the Pinecone key set and the OpenAI key empty,
\* after a run had stopped at the credential check.
C10_Witness ==
    /\ OPENAI_API_KEY = ""
    /\ PINECONE_API_KEY # ""
    /\ lastQuery # <<>>
    /\ \E d \in DOMAIN DOCUMENTS :
          DOCUMENTS[d].note = <<"missing OPENAI_API_KEY or PINECONE_API_KEY for ingestion">>

\* C11: when an ingest request is accepted, the status map holds the record
\* of the submitted document_id with status 'processing' and no note, and the
\* task that request scheduled is still pending; a task is started by a step
\* of its own, after the step that returned the response, never by the
\* request's step.
C11_ProcessingBeforeTaskRuns ==
    /\ [](IngestAnswered =>
            /\ http[1].resp.status = 200
            /\ http[1].json["document_id"] \in DOMAIN DOCUMENTS
            /\ DOCUMENTS[http[1].json["document_id"]].status = "processing"
            /\ DOCUMENTS[http[1].json["document_id"]].note = None
            /\ DOCUMENTS[http[1].json["document_id"]].storage_uri =
                  http[1].json["storage_uri"]
            /\ [document_id |-> http[1].json["document_id"],
                 req |-> DOCUMENTS[http[1].json["document_id"]].created_at] \in tasks
            /\ lastRun = <<>>)
    /\ [][lastRun' # <<>> =>
             /\ http' = <<>>
             /\ [document_id |-> lastRun'[1].document_id,
                  req |-> lastRun'[1].req] \in tasks \ tasks']_vars

\* A second request was accepted while the task of the first was pending.
C11_Witness ==
    /\ IngestAnswered
    /\ Cardinality(tasks) = 2
    /\ \A t \in tasks : t.document_id = http[1].json["document_id"]

\* The step answered a query request whose handler ran on a body whose
\* prompt is missing, null or empty.
QueryIncomplete ==
    /\ http # <<>>
    /\ http[1].path = QueryPath
    /\ http[1].ran
    /\ \/ "prompt" \notin DOMAIN http[1].json
       \/ http[1].json["prompt"] = None
       \/ http[1].json["prompt"] = <<>>

\* C12: a query request whose prompt is missing, null or empty is answered
\* 400 and its step creates no stream, makes no retrieval, generation or
\* fallback step, and changes neither the status map, the tasks, the index
\* nor the client cache.
C12_NoPromptRejected ==
    [][QueryIncomplete' =>
          /\ http'[1].resp.status = 400
          /\ streams' = streams
          /\ lastQuery' = <<>>
          /\ closed' = <<>>
          /\ DOCUMENTS' = DOCUMENTS
          /\ tasks' = tasks
          /\ index' = index
          /\ pc_client' = pc_client]_vars

\* A body with an empty prompt was answered 400 while the status map held a
\* record.
C12_Witness ==
    /\ QueryIncomplete
    /\ "prompt" \in DOMAIN http[1].json
    /\ http[1].json["prompt"] = <<>>
    /\ http[1].resp.status = 400
    /\ DOMAIN DOCUMENTS # {}

\* The record the latest step's run worked on, as the run left it.
RunRecord == DOCUMENTS[lastRun[1].document_id]

\* C13: a run that fails leaves its record in 'error' with the message of
\* the first stage that failed, in the order file not found, no text
\* extracted, missing credentials, embedding failure, upsert failure; no
\* later stage is attempted (no embedding call before the credential check
\* passed, no upsert call after an embedding failed), and the run does not
\* set 'ready'.
C13_FirstFailureReported ==
    /\ lastRun # <<>> =>
          IF RunRecord.storage_uri \notin DOMAIN FILES
          THEN /\ RunRecord.status = "error"
               /\ RunRecord.note = <<"file not found: ", RunRecord.storage_uri>>
               /\ lastRun[1].embedCalls = 0
               /\ lastRun[1].upsertCalls = 0
          ELSE IF ChunksOf(RunRecord) = <<>>
          THEN /\ RunRecord.status = "error"
               /\ RunRecord.note = <<"no text extracted">>
               /\ lastRun[1].embedCalls = 0
               /\ lastRun[1].upsertCalls = 0
          ELSE IF OPENAI_API_KEY = "" \/ PINECONE_API_KEY = ""
          THEN /\ RunRecord.status = "error"
               /\ RunRecord.note =
                     <<"missing OPENAI_API_KEY or PINECONE_API_KEY for ingestion">>
               /\ lastRun[1].embedCalls = 0
               /\ lastRun[1].upsertCalls = 0
          ELSE \/ /\ RunRecord.status = "error"
                  /\ RunRecord.note = <<"embedding request failed">>
                  /\ lastRun[1].embedCalls \in 1..Len(ChunksOf(RunRecord))
                  /\ lastRun[1].upsertCalls = 0
               \/ /\ RunRecord.status = "error"
                  /\ RunRecord.note = <<"upsert request failed">>
                  /\ lastRun[1].embedCalls = Len(ChunksOf(RunRecord))
                  /\ lastRun[1].upsertCalls = 1
               \/ /\ RunRecord.status = "ready"
                  /\ lastRun[1].embedCalls = Len(ChunksOf(RunRecord))
                  /\ lastRun[1].upsertCalls = 1
    /\ \A d \in DOMAIN DOCUMENTS :
          \A k \in 1..Len(ChunksOf(DOCUMENTS[d])), u \in BOOLEAN :
              \A up \in {upsert_to_pinecone(ChunksOf(DOCUMENTS[d]),
                                            DOCUMENTS[d].collection_id, d, k, u)} :
                  /\ up.raised
                  /\ up.exc = <<"embedding request failed">>
                  /\ up.embedCalls = k
                  /\ up.upsertCalls = 0

\* A run on a missing file, with no credential configured, reported the
\* missing file.
C13_Witness ==
    /\ lastRun # <<>>
    /\ RunRecord.storage_uri \notin DOMAIN FILES
    /\ OPENAI_API_KEY = ""
    /\ PINECONE_API_KEY = ""
    /\ RunRecord.status = "error"

\* The status and note a run can leave on a record, told from the record
\* and the environment alone.
Outcomes(record) ==
    IF record.storage_uri \notin DOMAIN FILES
    THEN {<<"error", <<"file not found: ", record.storage_uri>> >>}
    ELSE IF ChunksOf(record) = <<>>
    THEN {<<"error", <<"no text extracted">> >>}
    ELSE IF OPENAI_API_KEY = "" \/ PINECONE_API_KEY = ""
    THEN {<<"error", <<"missing OPENAI_API_KEY or PINECONE_API_KEY for ingestion">> >>}
    ELSE {<<"ready", <<"Upserted ", str(Len(ChunksOf(record))), " chunks to Pinecone.">> >>,
          <<"error", <<"embedding request failed">> >>,
          <<"error", <<"upsert request failed">> >>}

\* C14: a run for document d changes the record under d only, and only its
\* status and note, to an outcome that depends on that record alone; a
\* record changes only in a run for its document_id or in an ingest of its
\* document_id, so that, once no task for d is pending, the record holds
\* the status and note the last run for d wrote.
C14_RunsDoNotInterfere ==
    /\ [][lastRun' # <<>> =>
             /\ DOMAIN DOCUMENTS' = DOMAIN DOCUMENTS
             /\ \A x \in DOMAIN DOCUMENTS \ {lastRun'[1].document_id} :
                   DOCUMENTS'[x] = DOCUMENTS[x]
             /\ DOCUMENTS'[lastRun'[1].document_id] =
                   [DOCUMENTS[lastRun'[1].document_id] EXCEPT
                       !.status = DOCUMENTS'[lastRun'[1].document_id].status,
                       !.note = DOCUMENTS'[lastRun'[1].document_id].note]
             /\ <<DOCUMENTS'[lastRun'[1].document_id].status,
                   DOCUMENTS'[lastRun'[1].document_id].note>>
                     \in Outcomes(DOCUMENTS[lastRun'[1].document_id])]_vars
    /\ [][\A d \in DOMAIN DOCUMENTS :
             DOCUMENTS'[d] # DOCUMENTS[d] =>
                 \/ lastRun' # <<>> /\ lastRun'[1].document_id = d
                 \/ IngestAnswered' /\ http'[1].json["document_id"] = d]_vars
    /\ [](\A d \in DOMAIN DOCUMENTS :
             (\A t \in tasks : t.document_id # d) => DOCUMENTS[d].status \in Terminal)

\* A run for d1 completed while the record of d2 was waiting for its task.
C14_Witness ==
    /\ lastRun # <<>>
    /\ lastRun[1].document_id = "d1"
    /\ StatusOf("d1") = "ready"
    /\ StatusOf("d2") = "processing"

\* C15: a run issues at most one upsert call, and only after it embedded
\* every chunk; a run that fails at extraction, at chunking, at the
\* credential check or at an embedding makes no upsert call and leaves the
\* index as it was; the index changes only in a run that ends 'ready'.
C15_UpsertAllOrNothing ==
    [][lastRun' # <<>> =>
          /\ lastRun'[1].upsertCalls \in {0, 1}
          /\ lastRun'[1].upsertCalls = 1 =>
                /\ lastRun'[1].nchunks >= 1
                /\ lastRun'[1].embedCalls = lastRun'[1].nchunks
          /\ lastRun'[1].upsertCalls = 0 => index' = index
          /\ (/\ DOCUMENTS'[lastRun'[1].document_id].status = "error"
              /\ DOCUMENTS'[lastRun'[1].document_id].note # <<"upsert request failed">>) =>
                /\ lastRun'[1].upsertCalls = 0
                /\ index' = index
          /\ index' # index =>
                DOCUMENTS'[lastRun'[1].document_id].status = "ready"]_vars

\* A run failed at the embedding of its second or third chunk while the
\* index held vectors.
C15_Witness ==
    /\ lastRun # <<>>
    /\ RunRecord.note = <<"embedding request failed">>
    /\ lastRun[1].embedCalls >= 2
    /\ index # {}

\* The vectors the index holds for a document, in any namespace.
VectorsOf(d) == {e \in index : e.metadata.document_id = d}

\* C16: while the record of d, with collection_id c, is 'ready' over n
\* chunks, the vectors the index holds for d are exactly the n vectors
\* d-chunk-0 .. d-chunk-(n-1) in namespace c, with the chunks of the text
\* the record points to, also after d was ingested before with more chunks
\* or with another collection_id.
C16_ReadyVectorsExact ==
    \A d \in DOMAIN DOCUMENTS :
        DOCUMENTS[d].status = "ready" =>
            /\ Cardinality(VectorsOf(d)) = Len(ChunksOf(DOCUMENTS[d]))
            /\ \A e \in VectorsOf(d) :
                  /\ e.namespace = DOCUMENTS[d].collection_id
                  /\ \E i \in 1..Len(ChunksOf(DOCUMENTS[d])) :
                        /\ e.id = <<d, "-chunk-", str(i - 1)>>
                        /\ e.metadata.text = ChunksOf(DOCUMENTS[d])[i]

\* C17: every run works on the record stored by the request that scheduled
\* its task, with that request's storage_uri and collection_id, so that each
\* accepted request has its own record processed once, also when a second
\* request for the document_id was accepted before the first task started.
C17_TaskProcessesItsRequest ==
    [][lastRun' # <<>> => lastRun'[1].req = lastRun'[1].created_at]_vars

====
